---- MODULE Spec2Model ----
(***************************************************************************)
(* HEAL-EYE: the multi-step analysis workflow of src/agent.ts              *)
(* (healEyeWorkflow, main), the error/envelope utilities and the retry     *)
(* controller of src/app/api/langbase.ts (lines 92-228, the errors module) *)
(* and the two HTTP handlers handleAgentRequest (src/app/api/langbase.ts   *)
(* and src/unnamed/part_001).                                              *)
(*                                                                         *)
(* One behaviour of the model is one invocation: of main (which calls      *)
(* healEyeWorkflow) or of one of the two HTTP handlers.  The workflow is   *)
(* an async function; its actions are cut at its await points on the       *)
(* external provider (memory retrieval, agent.run, workflow.end).          *)
(***************************************************************************)
EXTENDS Integers, Sequences, FiniteSets, TLC

----------------------------------------------------------------------------
(* Bounds of the model                                                     *)

\* memories.retrieve returns 0..MaxMemories passages
MaxMemories == 1
\* the first analysis response requests 0..MaxToolCalls tool calls
MaxToolCalls == 2
\* concurrent invocations of healEyeWorkflow in one process
MaxInvocations == 2

----------------------------------------------------------------------------
(* Program constants                                                       *)

\* withRetries defaults: { retries = 3, delayMs = 500, factor = 2 }
Retries == 3
DelayMs == 500
Factor == 2

OPENAI_MODEL == "openai:gpt-5-mini-2025-08-07"
GEMINI_MODEL == "google:gemini-2.5-flash"

\* JavaScript null (let x: any = null) and the empty string
Null == "null"
EmptyString == ""
\* JavaScript undefined (an unset environment variable, a missing property
\* such as e?.message of a value without one)
Undefined == "undefined"

\* a value is truthy in `if (x)` / `x || y` unless it is null, undefined or ""
Truthy(v) == v \notin {Null, EmptyString, Undefined}

----------------------------------------------------------------------------
(* Errors and envelopes (the errors module)                                *)

\* Messages an upstream failure may carry (representatives of the two
\* classes the pattern of isOverloadedError separates), or none at all.
OverloadedMessages == {"The model is overloaded", "Rate limit reached, please try again later"}
OtherMessages == {"Internal server error"}

\* mutant of isOverloadedError: a missing or empty message counts as overload
isOverloadedError_MissingMatches(message) ==
    IF ~Truthy(message) THEN TRUE ELSE message \in OverloadedMessages

\* isOverloadedError: false for a missing/empty message, else the
\* case-insensitive pattern test
isOverloadedError(message) ==
    IF ~Truthy(message) THEN FALSE ELSE message \in OverloadedMessages

\* Thrown values.  cls is the class the instanceof tests of errorEnvelope see:
\* one of the BaseAppError subclasses, a plain Error, or a non-Error value.
AppErrorClasses == {"ValidationError", "AuthError", "ExternalServiceError", "WorkflowStepError"}

PlainError(message) ==
    [cls |-> "Error", code |-> "", message |-> message, httpStatus |-> 500,
     retryable |-> "undefined", detailsStep |-> "undefined"]

NonError ==
    [cls |-> "NonError", code |-> "", message |-> Undefined, httpStatus |-> 500,
     retryable |-> "undefined", detailsStep |-> "undefined"]

\* class ValidationError: super('VALIDATION_ERROR', message, 400, { details })
ValidationError(message) ==
    [cls |-> "ValidationError", code |-> "VALIDATION_ERROR", message |-> message,
     httpStatus |-> 400, retryable |-> "undefined", detailsStep |-> "undefined"]

\* class AuthError: super('AUTH_ERROR', message, 401, { details })
AuthError(message) ==
    [cls |-> "AuthError", code |-> "AUTH_ERROR", message |-> message,
     httpStatus |-> 401, retryable |-> "undefined", detailsStep |-> "undefined"]

\* class ExternalServiceError: super('EXTERNAL_SERVICE_ERROR', message, httpStatus, { details, retryable = true })
ExternalServiceError(message, httpStatus) ==
    [cls |-> "ExternalServiceError", code |-> "EXTERNAL_SERVICE_ERROR", message |-> message,
     httpStatus |-> httpStatus, retryable |-> "true", detailsStep |-> "undefined"]

\* class WorkflowStepError: the constructor's `step` parameter is not stored;
\* only details (here: details.step) and retryable = false are.
WorkflowStepError(step, message, detailsStep) ==
    [cls |-> "WorkflowStepError", code |-> "WORKFLOW_STEP_ERROR", message |-> message,
     httpStatus |-> 500, retryable |-> "false", detailsStep |-> detailsStep]

\* the `error` member of an envelope; NoError where the envelope has none
NoError == [code |-> "", message |-> "", retryable |-> "undefined", step |-> "undefined"]

\* mutant of toJSON: WorkflowStepError without its toJSON override
toJSON_BaseOnly(err) ==
    [code |-> err.code, message |-> err.message, retryable |-> err.retryable,
     step |-> "undefined"]

\* BaseAppError.toJSON / WorkflowStepError.toJSON
toJSON(err) ==
    [code |-> err.code, message |-> err.message, retryable |-> err.retryable,
     step |-> IF err.cls = "WorkflowStepError" THEN err.detailsStep ELSE "undefined"]

\* The data member of an envelope.  inner tells whether data itself has a
\* `success` member ("none" when it has not, else its value).
NoData ==
    [conversational_response |-> Null, data_analysis |-> Null, predictions |-> Null,
     recommendations |-> Null, public_alerts |-> Null, inner |-> "none"]

\* mutant of errorEnvelope: no third branch, every value that is not a
\* BaseAppError is reported as UNEXPECTED_ERROR
errorEnvelope_NoUnknown(err) ==
    [success |-> FALSE,
     error |-> IF err.cls \in AppErrorClasses THEN toJSON(err)
               ELSE [NoError EXCEPT !.code = "UNEXPECTED_ERROR", !.message = err.message],
     data |-> NoData, steps |-> << >>]

\* errorEnvelope(err)
errorEnvelope(err) ==
    [success |-> FALSE,
     error |-> IF err.cls \in AppErrorClasses THEN toJSON(err)
               ELSE IF err.cls = "Error"
                    THEN [NoError EXCEPT !.code = "UNEXPECTED_ERROR", !.message = err.message]
                    ELSE [NoError EXCEPT !.code = "UNKNOWN", !.message = "Unknown error"],
     data |-> NoData, steps |-> << >>]

\* successEnvelope(data, meta) with meta = { steps }
successEnvelope(data, steps) ==
    [success |-> TRUE, error |-> NoError, data |-> data, steps |-> steps]

\* mergeEnvelope: when data itself is an envelope (has a `success` member),
\* flatten it; otherwise the envelope is returned unchanged
mergeEnvelope(envelope) ==
    IF envelope.success /\ envelope.data.inner # "none"
    THEN [envelope EXCEPT !.success = (envelope.data.inner = "success"),
                          !.error = IF envelope.data.inner = "success" THEN NoError
                                    ELSE [NoError EXCEPT !.code = "UPSTREAM", !.message = "inner error"]]
    ELSE envelope

----------------------------------------------------------------------------
(* The pipeline                                                            *)

StepOrder ==
    << "collect_context_data", "analyze_realtime_data", "generate_predictions",
       "generate_recommendations", "generate_public_alerts",
       "generate_conversational_response" >>

\* reasoning call-sites (langbase.agent.run), and the step each belongs to
Sites == {"analyze", "summarize", "predict", "recommend", "alert", "converse"}

StepOfSite(s) ==
    CASE s = "analyze"   -> "analyze_realtime_data"
      [] s = "summarize" -> "analyze_realtime_data"
      [] s = "predict"   -> "generate_predictions"
      [] s = "recommend" -> "generate_recommendations"
      [] s = "alert"     -> "generate_public_alerts"
      [] s = "converse"  -> "generate_conversational_response"

\* StepResult entries pushed on stepMeta
StepOk(id) == [id |-> id, status |-> "ok", error |-> NoError]
StepError(id, err) == [id |-> id, status |-> "error", error |-> errorEnvelope(err).error]
StepSkipped(id, why) ==
    [id |-> id, status |-> "skipped",
     error |-> [NoError EXCEPT !.code = "DEPENDENCY_FAILED", !.message = why]]

----------------------------------------------------------------------------
(* The external provider                                                   *)

\* what a failing provider call (memories.retrieve, agent.run) may throw
ProviderErrors ==
    {PlainError(m) : m \in OverloadedMessages \cup OtherMessages} \cup {NonError}

RegisteredTools == {"fetch_weather_aqi_data", "analyze_hospital_data", "analyze_health_trends"}
ToolNames == RegisteredTools \cup {"lookup_pharmacy_stock"}

\* one requested tool call: its name and whether JSON.parse(arguments) succeeds
ToolCallChoices == [name : ToolNames, argsParse : BOOLEAN]

ToolCallSeqs ==
    UNION {[1..n -> ToolCallChoices] : n \in 0..MaxToolCalls}

\* the text a reasoning call of site s produces
OutputText(s) ==
    CASE s = "analyze"   -> "analysis content"
      [] s = "summarize" -> "analysis summary"
      [] s = "predict"   -> "prediction text"
      [] s = "recommend" -> "recommendation text"
      [] s = "alert"     -> "alert text"
      [] s = "converse"  -> "conversational text"

\* responses of langbase.agent.run at site s.  With tool schemas (analyze)
\* the message carries content or tool calls; elsewhere only output is read.
Responses(s) ==
    IF s = "analyze"
    THEN {[output |-> c, content |-> c, tool_calls |-> << >>] : c \in {OutputText(s), EmptyString}}
         \cup {[output |-> EmptyString, content |-> EmptyString, tool_calls |-> t] :
                   t \in ToolCallSeqs \ {<< >>}}
    ELSE {[output |-> c, content |-> c, tool_calls |-> << >>] : c \in {OutputText(s), EmptyString}}

----------------------------------------------------------------------------
(* State                                                                   *)

VARIABLES
    entry,        \* which entry point this invocation uses
    request,      \* the request: whether its body parses, and its input
    env,          \* process.env: LANGBASE_API_KEY, OPENAI_API_KEY
    endOutcome,   \* how the provider's finalize hook behaves in this run
    pc,           \* position of the invocation
    sessionOpen,  \* langbase.workflow() has been created
    contextData,  \* number of passages in contextData (let contextData = [])
    outs,         \* dataAnalysis, prediction, recommendations, publicAlerts, conversationalResponse
    stepMeta,     \* the StepResult sequence
    site,         \* the reasoning call-site being executed
    phase,        \* "primary" (inside withRetries) or "fallback"
    attempt,      \* withRetries' attempt counter
    waits,        \* the waits of the current withRetries call, in order
    inputMessages,\* the working conversation of analyze_realtime_data
    lastRequest,  \* the most recent reasoning request issued
    issued,       \* the kinds of external call issued so far
    siteCalls,    \* number of reasoning calls issued at the call-site of lastRequest
    siteLog,      \* history: the provider calls of the most recent call-site, in order
    rw,           \* one call of withRetries on its own (see WithRetries below)
    ws,           \* one WorkflowStepError constructed and serialized on its own
    pair,         \* concurrent invocations of healEyeWorkflow (see Invocation below)
    calls,        \* history: external calls issued per call-site, where a run counts them
    endCalls,     \* number of workflow.end() calls
    threw,        \* history: the steps whose thunk threw
    pending,      \* completion computed by return / catch, before finally
    result        \* what the caller receives

vars == << entry, request, env, endOutcome, pc, sessionOpen, contextData, outs,
           stepMeta, site, phase, attempt, waits, inputMessages, lastRequest,
           issued, siteCalls, siteLog, rw, ws, pair, calls, endCalls, threw, pending, result >>

Entries == {"main", "handleAgentRequest", "vercelHandler"}

\* request inputs: a non-empty string, the empty string, absent, a non-string
Inputs ==
    { [type |-> "string", text |-> "surge forecast for Delhi"],
      [type |-> "string", text |-> EmptyString],
      [type |-> "undefined", text |-> Undefined],
      [type |-> "number", text |-> "42"] }

\* !input || typeof input !== 'string'
InvalidInput(input) == ~Truthy(input.text) \/ input.type # "string"

Requests ==
    {[parses |-> TRUE, input |-> i] : i \in Inputs}
    \cup {[parses |-> FALSE, input |-> [type |-> "undefined", text |-> Undefined]]}

Envs ==
    [LANGBASE_API_KEY : {Undefined, "user_key", "pipe_key"},
     OPENAI_API_KEY : {Undefined, EmptyString, "sk-key", "AIzaSy-key"}]

NoOuts ==
    [dataAnalysis |-> Null, prediction |-> Null, recommendations |-> Null,
     publicAlerts |-> Null, conversationalResponse |-> Null]

NoEnvelope == [success |-> FALSE, error |-> NoError, data |-> NoData, steps |-> << >>]

\* completions: nothing yet, a returned envelope, a thrown value
NoResult == [kind |-> "none", envelope |-> NoEnvelope, thrown |-> NonError, httpStatus |-> 0]
Returned(envelope) == [kind |-> "envelope", envelope |-> envelope, thrown |-> NonError, httpStatus |-> 0]
Thrown(err) == [kind |-> "throw", envelope |-> NoEnvelope, thrown |-> err, httpStatus |-> 0]

NoRequest ==
    [site |-> "none", model |-> "none", credential |-> "none", conversation |-> << >>,
     embedded |-> NoOuts]

\* withRetries called on its own: its options, its locals, the outcomes of the
\* invocations of fn so far, and how the call ended
RetryCall(retries) ==
    [retries |-> retries, attempt |-> 0, waits |-> << >>, outcomes |-> << >>,
     status |-> "running", value |-> "none", thrown |-> NonError]

\* no such call is in progress (the runs of healEyeWorkflow and the handlers)
NoRetryCall == [RetryCall(Retries) EXCEPT !.status = "none"]

\* new WorkflowStepError(step, message, details) on its own: the arguments of
\* the constructor (detailsStep is details.step, "undefined" when details has
\* none), and the error member of its envelope once serialized
Construction(step, message, detailsStep) ==
    [step |-> step, message |-> message, detailsStep |-> detailsStep,
     status |-> "constructed", json |-> NoError]

NoSerialization ==
    [Construction("collect_context_data", "", "undefined") EXCEPT !.status = "none"]

\* no concurrent invocations are modelled (the runs of one invocation)
NoPair == [inv |-> << >>, frames |-> << >>]

\* the count of the external calls of a run: the retrievals, the reasoning
\* calls of the step of the most recent one, and all reasoning calls
ZeroCount == [retrieve |-> 0, step |-> 0, total |-> 0]

\* the calls are not counted (the runs that keep no count)
NoCount == [ZeroCount EXCEPT !.total = 0 - 1]

Init ==
    /\ entry \in Entries
    /\ request \in Requests
    /\ env \in Envs
    /\ entry # "main" => env.OPENAI_API_KEY = Undefined
    /\ endOutcome = "ok"
    /\ pc = IF entry = "main" THEN "main" ELSE "handler"
    /\ sessionOpen = FALSE
    /\ contextData = 0
    /\ outs = NoOuts
    /\ stepMeta = << >>
    /\ site = "none"
    /\ phase = "none"
    /\ attempt = 0
    /\ waits = << >>
    /\ inputMessages = << >>
    /\ lastRequest = NoRequest
    /\ issued = {}
    /\ siteCalls = 0
    /\ siteLog = << >>
    /\ rw = NoRetryCall
    /\ ws = NoSerialization
    /\ pair = NoPair
    /\ calls = NoCount
    /\ endCalls = 0
    /\ threw = {}
    /\ pending = NoResult
    /\ result = NoResult

----------------------------------------------------------------------------
(* Provider selection (the same three lines open every step's thunk)       *)

\* mutant of hasOpenAIKey: the shape of the key is not tested
hasOpenAIKey_AnyKey == Truthy(env.OPENAI_API_KEY)

\* process.env.OPENAI_API_KEY && !process.env.OPENAI_API_KEY.startsWith('AIzaSy')
hasOpenAIKey == Truthy(env.OPENAI_API_KEY) /\ env.OPENAI_API_KEY # "AIzaSy-key"

\* const model = hasOpenAIKey ? "openai:..." : "google:..."
PrimaryModel == IF hasOpenAIKey THEN OPENAI_MODEL ELSE GEMINI_MODEL

\* const fallback = hasOpenAIKey ? "google:..." : "openai:..."
FallbackModel == IF hasOpenAIKey THEN GEMINI_MODEL ELSE OPENAI_MODEL

\* const apiKey = hasOpenAIKey ? OPENAI_API_KEY : GOOGLE_API_KEY; the closure
\* that issues the call sends it with whichever model it is given
Credential == IF hasOpenAIKey THEN "OPENAI_API_KEY" ELSE "GOOGLE_API_KEY"

----------------------------------------------------------------------------
(* Conversation turns of analyze_realtime_data                             *)

UserTurn == [role |-> "user", name |-> "", tool_call_id |-> 0, content |-> "user input"]

SystemNote(text) == [role |-> "system", name |-> "", tool_call_id |-> 0, content |-> text]

\* response.choices[0].message
AssistantTurn(resp) ==
    [role |-> "assistant", name |-> "", tool_call_id |-> 0, content |-> resp.content]

\* the dummy tool implementations and the default branch of the switch
ToolResult(name) ==
    CASE name = "fetch_weather_aqi_data" -> "weather/AQI json"
      [] name = "analyze_hospital_data"  -> "hospital json"
      [] name = "analyze_health_trends"  -> "trends json"
      [] OTHER                           -> "Tool not found"

\* mutant of ToolTurn: the turn does not carry the id of its call
ToolTurn_NoCallId(i, tc) ==
    [role |-> "tool", name |-> tc.name, tool_call_id |-> 0, content |-> ToolResult(tc.name)]

\* the turn pushed for the i-th tool call (toolCall.id is its position)
ToolTurn(i, tc) ==
    [role |-> "tool", name |-> tc.name, tool_call_id |-> i, content |-> ToolResult(tc.name)]

\* mutant of RunTools: a call of an unregistered tool throws
RECURSIVE RunTools_UnknownThrows(_, _, _)
RunTools_UnknownThrows(i, msgs, tcs) ==
    IF i > Len(tcs) THEN [threw |-> FALSE, msgs |-> msgs]
    ELSE IF tcs[i].name \notin RegisteredTools \/ ~tcs[i].argsParse
         THEN [threw |-> TRUE, msgs |-> msgs]
         ELSE RunTools_UnknownThrows(i + 1, Append(msgs, ToolTurn(i, tcs[i])), tcs)

\* for (const toolCall of toolCalls) { switch (name) ... push }: JSON.parse is
\* reached only in the three registered cases and throws on malformed arguments
RECURSIVE RunTools(_, _, _)
RunTools(i, msgs, tcs) ==
    IF i > Len(tcs) THEN [threw |-> FALSE, msgs |-> msgs]
    ELSE IF tcs[i].name \in RegisteredTools /\ ~tcs[i].argsParse
         THEN [threw |-> TRUE, msgs |-> msgs]
         ELSE RunTools(i + 1, Append(msgs, ToolTurn(i, tcs[i])), tcs)

----------------------------------------------------------------------------
(* Control flow of healEyeWorkflow, as functions of the control record     *)

Here ==
    [pc |-> pc, outs |-> outs, stepMeta |-> stepMeta, site |-> site, phase |-> phase,
     attempt |-> attempt, waits |-> waits, inputMessages |-> inputMessages,
     threw |-> threw, pending |-> pending]

Apply(k) ==
    /\ pc' = k.pc
    /\ outs' = k.outs
    /\ stepMeta' = k.stepMeta
    /\ site' = k.site
    /\ phase' = k.phase
    /\ attempt' = k.attempt
    /\ waits' = k.waits
    /\ inputMessages' = k.inputMessages
    /\ threw' = k.threw
    /\ pending' = k.pending

\* mutant of BeginCall: the attempt counter is shared by the call-sites
BeginCall_KeepsAttempt(k, s) ==
    [k EXCEPT !.pc = "call", !.site = s, !.phase = "primary", !.waits = << >>]

\* entering withRetries(() => run(model)) at call-site s: let attempt = 0
BeginCall(k, s) ==
    [k EXCEPT !.pc = "call", !.site = s, !.phase = "primary", !.attempt = 0,
              !.waits = << >>]

\* leaving the try block: the locals of the thunks are gone
Leave(k, completion) ==
    [k EXCEPT !.pc = "finally", !.site = "none", !.phase = "none", !.attempt = 0,
              !.waits = << >>, !.inputMessages = << >>, !.pending = completion]

\* mutant of GateInput: the gate of generate_public_alerts tests dataAnalysis
GateInput_AlertsOnAnalysis(idx, o) ==
    CASE idx = 3 -> o.dataAnalysis
      [] idx = 4 -> o.prediction
      [] idx = 5 -> o.dataAnalysis

\* the output a gated step (3, 4, 5) tests: if (dataAnalysis) / if (prediction) /
\* if (recommendations)
GateInput(idx, o) ==
    CASE idx = 3 -> o.dataAnalysis
      [] idx = 4 -> o.prediction
      [] idx = 5 -> o.recommendations

SkipReason(idx) ==
    CASE idx = 3 -> "Skipped due to dataAnalysis error"
      [] idx = 4 -> "Skipped due to prediction error"
      [] idx = 5 -> "Skipped due to recommendations error"

SiteOfStep(idx) ==
    CASE idx = 3 -> "predict"
      [] idx = 4 -> "recommend"
      [] idx = 5 -> "alert"
      [] idx = 6 -> "converse"

\* mutant of Gates: a gated step whose input is absent records nothing
RECURSIVE Gates_Silent(_, _, _)
Gates_Silent(idx, meta, o) ==
    IF idx = 6 THEN [next |-> 6, meta |-> meta]
    ELSE IF Truthy(GateInput(idx, o)) THEN [next |-> idx, meta |-> meta]
         ELSE Gates_Silent(idx + 1, meta, o)

\* the code between the end of one step and the next reasoning call: each
\* gated step either starts or pushes its skipped entry; step 6 is ungated
RECURSIVE Gates(_, _, _)
Gates(idx, meta, o) ==
    IF idx = 6 THEN [next |-> 6, meta |-> meta]
    ELSE IF Truthy(GateInput(idx, o)) THEN [next |-> idx, meta |-> meta]
         ELSE Gates(idx + 1, Append(meta, StepSkipped(StepOrder[idx], SkipReason(idx))), o)

AfterStep(k, idx) ==
    LET g == Gates(idx, k.stepMeta, k.outs)
    IN  BeginCall([k EXCEPT !.stepMeta = g.meta, !.inputMessages = << >>],
                  SiteOfStep(g.next))

\* mutant of FinalData: an absent analysis is reported by a placeholder
FinalData_Placeholder(o) ==
    [conversational_response |-> o.conversationalResponse,
     data_analysis |-> IF o.dataAnalysis = Null THEN "No analysis available" ELSE o.dataAnalysis,
     predictions |-> o.prediction,
     recommendations |-> o.recommendations, public_alerts |-> o.publicAlerts,
     inner |-> "none"]

\* the data object of the final successEnvelope
FinalData(o) ==
    [conversational_response |-> o.conversationalResponse,
     data_analysis |-> o.dataAnalysis, predictions |-> o.prediction,
     recommendations |-> o.recommendations, public_alerts |-> o.publicAlerts,
     inner |-> "none"]

\* mutant of OuterCatch: the session is finalized on the success path only
OuterCatch_NoFinally(k, err) ==
    [Leave(k, Returned(errorEnvelope(err))) EXCEPT !.pc = "done"]

\* catch (err) { return errorEnvelope(err) } of healEyeWorkflow
OuterCatch(k, err) == Leave(k, Returned(errorEnvelope(err)))

\* the thunk of the step of call-site s returned value v: the assignment, the
\* stepMeta.push({status:'ok'}) that follows it, and the code up to the next call
StepReturned(k, s, v) ==
    LET id == StepOfSite(s)
        pushed == Append(k.stepMeta, StepOk(id))
    IN  CASE s \in {"analyze", "summarize"} ->
               AfterStep([k EXCEPT !.outs.dataAnalysis = v, !.stepMeta = pushed], 3)
          [] s = "predict" ->
               AfterStep([k EXCEPT !.outs.prediction = v, !.stepMeta = pushed], 4)
          [] s = "recommend" ->
               AfterStep([k EXCEPT !.outs.recommendations = v, !.stepMeta = pushed], 5)
          [] s = "alert" ->
               AfterStep([k EXCEPT !.outs.publicAlerts = v, !.stepMeta = pushed], 6)
          [] s = "converse" ->
               LET o == [k.outs EXCEPT !.conversationalResponse = v]
               IN  Leave([k EXCEPT !.outs = o, !.stepMeta = pushed],
                         Returned(mergeEnvelope(successEnvelope(FinalData(o), pushed))))

\* mutant of StepThrew: the catch of step 2 re-raises like that of step 1
StepThrew_Rethrow(k, s, err) ==
    OuterCatch([k EXCEPT !.threw = @ \cup {StepOfSite(s)},
                         !.stepMeta = IF s \in {"analyze", "summarize"}
                                      THEN Append(@, StepError(StepOfSite(s), err))
                                      ELSE @],
               err)

\* the thunk of the step of call-site s threw err.  Step 2 has its own
\* try/catch (push status 'error', continue); steps 3-6 have none, so the
\* error reaches the catch of healEyeWorkflow.
StepThrew(k, s, err) ==
    LET k1 == [k EXCEPT !.threw = @ \cup {StepOfSite(s)}]
    IN  IF s \in {"analyze", "summarize"}
        THEN AfterStep([k1 EXCEPT !.stepMeta = Append(@, StepError(StepOfSite(s), err))], 3)
        ELSE OuterCatch(k1, err)

----------------------------------------------------------------------------
(* withRetries and the fallback at a call-site                             *)

RECURSIVE Pow(_, _)
Pow(b, n) == IF n = 0 THEN 1 ELSE b * Pow(b, n - 1)

\* mutant of BackoffWait: the wait grows linearly with the attempt
BackoffWait_Linear(att) == DelayMs * (att + 1)

\* const wait = delayMs * Math.pow(factor, attempt)
BackoffWait(att) == DelayMs * Pow(Factor, att)

\* the catch inside the loop of withRetries: rethrow or wait and retry
\* (const msg = e?.message || ''; if (attempt === retries || !isOverloadedError(msg)) throw e)
\* mutant of RetryDecisionFor: the last attempt is not told apart
RetryDecisionFor_NoLastAttempt(retries, att, err) ==
    LET msg == IF Truthy(err.message) THEN err.message ELSE EmptyString
    IN  IF ~isOverloadedError(msg) THEN "throw" ELSE "wait"

RetryDecisionFor(retries, att, err) ==
    LET msg == IF Truthy(err.message) THEN err.message ELSE EmptyString
    IN  IF att = retries \/ ~isOverloadedError(msg) THEN "throw" ELSE "wait"

\* every call-site calls withRetries without options: retries = 3
RetryDecision(att, err) == RetryDecisionFor(Retries, att, err)

\* mutant of FallsBack: the call-site falls back on any error
FallsBack_Always(err) == TRUE

\* the catch around withRetries at every call-site:
\* if (isOverloadedError(e?.message)) { fallback } else throw e
FallsBack(err) == isOverloadedError(err.message)

\* the request of a reasoning call at site s with the given model
MakeRequest(k, s, model) ==
    [site |-> s, model |-> model, credential |-> Credential,
     conversation |-> IF s \in {"analyze", "summarize"} THEN k.inputMessages
                      ELSE << UserTurn >>,
     embedded |->
        CASE s = "predict"   -> [NoOuts EXCEPT !.dataAnalysis = k.outs.dataAnalysis]
          [] s = "recommend" -> [NoOuts EXCEPT !.prediction = k.outs.prediction]
          [] s = "alert"     -> [NoOuts EXCEPT !.prediction = k.outs.prediction,
                                               !.recommendations = k.outs.recommendations]
          [] s = "converse"  -> [k.outs EXCEPT !.conversationalResponse = Null]
          [] OTHER           -> NoOuts]

\* whether the code after the call of site s pushes a system note on
\* inputMessages: after the fallback call of analyze and of summarize only
\* (the thunks of steps 3-6 pass a literal input array and push nothing)
NotePushed(s, viaFallback) == viaFallback /\ s \in {"analyze", "summarize"}

\* mutant of AnalysisText: an empty content is returned as it is
AnalysisText_NoSubstitute(resp) == resp.content

\* return response.choices[0].message.content || "No data analysis performed"
AnalysisText(resp) ==
    IF Truthy(resp.content) THEN resp.content ELSE "No data analysis performed"

\* the code of the thunk after a reasoning call of site s has returned resp
OnResponse(k, s, resp, viaFallback) ==
    CASE s = "analyze" ->
           LET noted == IF NotePushed(s, viaFallback)
                        THEN Append(k.inputMessages, SystemNote("Model overloaded. Fell back."))
                        ELSE k.inputMessages
               msgs == Append(noted, AssistantTurn(resp))
               k1 == [k EXCEPT !.inputMessages = msgs]
           IN  IF Len(resp.tool_calls) > 0
               THEN LET r == RunTools(1, msgs, resp.tool_calls)
                    IN  IF r.threw
                        THEN StepThrew(k1, s, PlainError("Unexpected token in JSON"))
                        ELSE BeginCall([k1 EXCEPT !.inputMessages = r.msgs], "summarize")
               ELSE StepReturned(k1, s, AnalysisText(resp))
      [] s = "summarize" ->
           StepReturned([k EXCEPT !.inputMessages =
                            IF NotePushed(s, viaFallback)
                            THEN Append(@, SystemNote("Summary fallback model used."))
                            ELSE @],
                        s, resp.output)
      [] OTHER -> StepReturned(k, s, resp.output)

\* a primary attempt threw err: withRetries waits and retries, or rethrows
\* to the call-site, which falls back or lets the error leave the thunk
PrimaryThrew(k, s, err) ==
    IF RetryDecision(k.attempt, err) = "wait"
    THEN [k EXCEPT !.waits = Append(@, BackoffWait(k.attempt)), !.attempt = @ + 1]
    ELSE IF FallsBack(err) THEN [k EXCEPT !.phase = "fallback"]
         ELSE StepThrew(k, s, err)

----------------------------------------------------------------------------
(* Actions of main / healEyeWorkflow                                       *)

\* main: const { input } = await event.json(); return await healEyeWorkflow(...)
Main ==
    /\ pc = "main"
    /\ IF request.parses
       THEN pc' = "workflow" /\ UNCHANGED result
       ELSE pc' = "done" /\ result' = Thrown(PlainError("Unexpected token in JSON"))
    /\ UNCHANGED << entry, request, env, endOutcome, sessionOpen, contextData, outs,
                    stepMeta, site, phase, attempt, waits, inputMessages, lastRequest,
                    issued, siteCalls, siteLog, rw, ws, pair, calls, endCalls, threw, pending >>

\* healEyeWorkflow up to the first await: the credential check (a plain Error
\* thrown outside the try block) and the creation of the provider session
HealEyeWorkflowStart ==
    /\ pc = "workflow"
    /\ IF ~Truthy(env.LANGBASE_API_KEY)
       THEN /\ pc' = "done"
            /\ result' = Thrown(PlainError("LANGBASE_API_KEY missing. Set it in .env and restart the process."))
            /\ UNCHANGED sessionOpen
       ELSE /\ pc' = "collect"
            /\ sessionOpen' = TRUE
            /\ UNCHANGED result
    /\ UNCHANGED << entry, request, env, endOutcome, contextData, outs,
                    stepMeta, site, phase, attempt, waits, inputMessages, lastRequest,
                    issued, siteCalls, siteLog, rw, ws, pair, calls, endCalls, threw, pending >>

\* one more call issued at s, in a run that counts: the count of a step
\* starts again when another step issues its first call
Tally(s) ==
    IF calls.total < 0 THEN calls
    ELSE IF s = "retrieve" THEN [calls EXCEPT !.retrieve = @ + 1]
    ELSE [calls EXCEPT
            !.step = IF lastRequest.site \in Sites
                        /\ StepOfSite(lastRequest.site) = StepOfSite(s)
                     THEN @ + 1 ELSE 1,
            !.total = @ + 1]

\* how a failed provider call is logged: by the class of its message
Failure(err) == IF isOverloadedError(err.message) THEN "overloaded" ELSE "failed"

\* one entry of siteLog: the request, how the call ended, whether the code
\* that handled it pushed a system note, and the tool calls and the content
\* of the response
LogEntry(req, outcome, noted, resp) ==
    [request |-> req, outcome |-> outcome, noted |-> noted,
     tool_calls |-> resp.tool_calls, content |-> resp.content]

\* a call that threw has no response
NoResponse == [output |-> EmptyString, content |-> EmptyString, tool_calls |-> << >>]

\* siteLog holds the calls of one call-site: it starts again when another
\* call-site issues its first call
Logged(s, e) ==
    siteLog' = IF siteLog # << >> /\ siteLog[1].request.site = s
               THEN Append(siteLog, e) ELSE << e >>

\* the request of langbase.memories.retrieve({ query: input, ... })
RetrieveRequest == [NoRequest EXCEPT !.site = "retrieve"]

\* mutant of RetrieveThrew: the retrieval is called again after an overload
RetrieveThrew_Retried(k, e) ==
    IF isOverloadedError(e.message) /\ Len(siteLog) < Retries THEN k
    ELSE OuterCatch([k EXCEPT
            !.threw = @ \cup {"collect_context_data"},
            !.stepMeta = Append(@, StepError("collect_context_data", e))],
            WorkflowStepError("collect_context_data", "Failed to retrieve context data",
                              "collect_context_data"))

\* the catch of step collect_context_data: push status 'error' with the
\* envelope of the original error, then throw a WorkflowStepError, which the
\* catch of healEyeWorkflow turns into the returned envelope
RetrieveThrew(k, e) ==
    OuterCatch([k EXCEPT
        !.threw = @ \cup {"collect_context_data"},
        !.stepMeta = Append(@, StepError("collect_context_data", e))],
        WorkflowStepError("collect_context_data", "Failed to retrieve context data",
                          "collect_context_data"))

\* the retrieval returned: contextData is assigned, status 'ok' is pushed and
\* step 2 starts with inputMessages = [{ role: "user", content: input }]
RetrieveReturned(k) ==
    BeginCall([k EXCEPT !.stepMeta = Append(@, StepOk("collect_context_data")),
                        !.inputMessages = << UserTurn >>], "analyze")

\* step collect_context_data: one langbase.memories.retrieve call, not under
\* withRetries; on failure push status 'error' and throw WorkflowStepError
CollectContext ==
    /\ pc = "collect"
    /\ issued' = issued \cup {"retrieve"}
    /\ siteCalls' = siteCalls
    /\ calls' = Tally("retrieve")
    /\ \/ \E n \in 0..MaxMemories :
            /\ contextData' = n
            /\ Logged("retrieve", LogEntry(RetrieveRequest, "returned", FALSE, NoResponse))
            /\ Apply(RetrieveReturned(Here))
       \/ \E e \in ProviderErrors :
            /\ contextData' = contextData
            /\ Logged("retrieve", LogEntry(RetrieveRequest, Failure(e), FALSE, NoResponse))
            /\ Apply(RetrieveThrew(Here, e))
    /\ UNCHANGED << entry, request, env, endOutcome, sessionOpen, lastRequest,
                    rw, ws, pair, endCalls, result >>

\* a reasoning call is issued at call-site s: the count of the calls of that
\* call-site goes up; it starts again when another call-site issues its first
Counted(s) ==
    /\ issued' = issued \cup {s}
    /\ siteCalls' = IF lastRequest.site = s THEN siteCalls + 1 ELSE 1
    /\ calls' = Tally(s)

\* one invocation of fn() inside withRetries at call-site s
PrimaryAttempt(s) ==
    /\ pc = "call" /\ site = s /\ phase = "primary"
    /\ Counted(s)
    /\ lastRequest' = MakeRequest(Here, s, PrimaryModel)
    /\ \/ \E r \in Responses(s) :
            /\ Apply(OnResponse(Here, s, r, FALSE))
            /\ Logged(s, LogEntry(lastRequest', "returned", NotePushed(s, FALSE), r))
       \/ \E e \in ProviderErrors :
            /\ Apply(PrimaryThrew(Here, s, e))
            /\ Logged(s, LogEntry(lastRequest', Failure(e), FALSE, NoResponse))
    /\ UNCHANGED << entry, request, env, endOutcome, sessionOpen, contextData,
                    rw, ws, pair, endCalls, result >>

\* the single fallback call of call-site s, outside withRetries
FallbackCall(s) ==
    /\ pc = "call" /\ site = s /\ phase = "fallback"
    /\ Counted(s)
    /\ lastRequest' = MakeRequest(Here, s, FallbackModel)
    /\ \/ \E r \in Responses(s) :
            /\ Apply(OnResponse(Here, s, r, TRUE))
            /\ Logged(s, LogEntry(lastRequest', "returned", NotePushed(s, TRUE), r))
       \/ \E e \in ProviderErrors :
            /\ Apply(StepThrew(Here, s, e))
            /\ Logged(s, LogEntry(lastRequest', Failure(e), FALSE, NoResponse))
    /\ UNCHANGED << entry, request, env, endOutcome, sessionOpen, contextData,
                    rw, ws, pair, endCalls, result >>

\* the six steps' reasoning calls
AnalyzeRealtimeData ==
    \E s \in {"analyze", "summarize"} : PrimaryAttempt(s) \/ FallbackCall(s)

GeneratePredictions == PrimaryAttempt("predict") \/ FallbackCall("predict")

GenerateRecommendations == PrimaryAttempt("recommend") \/ FallbackCall("recommend")

GeneratePublicAlerts == PrimaryAttempt("alert") \/ FallbackCall("alert")

GenerateConversationalResponse == PrimaryAttempt("converse") \/ FallbackCall("converse")

\* finally { await workflow.end() }, then the completion reaches the caller
WorkflowEnd ==
    /\ pc = "finally"
    /\ endCalls' = endCalls + 1
    /\ pc' = "done"
    /\ result' = IF endOutcome = "ok" THEN pending
                 ELSE Thrown(PlainError("workflow.end failed"))
    /\ UNCHANGED << entry, request, env, endOutcome, sessionOpen, contextData, outs,
                    stepMeta, site, phase, attempt, waits, inputMessages, lastRequest,
                    issued, siteCalls, siteLog, rw, ws, pair, calls, threw, pending >>

Workflow ==
    \/ Main
    \/ HealEyeWorkflowStart
    \/ CollectContext
    \/ AnalyzeRealtimeData
    \/ GeneratePredictions
    \/ GenerateRecommendations
    \/ GeneratePublicAlerts
    \/ GenerateConversationalResponse
    \/ WorkflowEnd

----------------------------------------------------------------------------
(* The HTTP handlers of POST /api/langbase                                 *)

\* an HTTP response carrying an envelope, and one carrying another body
Response(envelope, status) ==
    [kind |-> "response", envelope |-> envelope, thrown |-> NonError, httpStatus |-> status]
RawResponse(status) ==
    [kind |-> "raw", envelope |-> NoEnvelope, thrown |-> NonError, httpStatus |-> status]

\* toResponse(err): the status of a BaseAppError, else 500
toResponse(err) ==
    Response(errorEnvelope(err), IF err.cls \in AppErrorClasses THEN err.httpStatus ELSE 500)

\* the catch of the app.post handler of part_001: c.json(errorEnvelope(error), 500)
VercelCatch(err) == Response(errorEnvelope(err), 500)

\* how the handler of entry point e answers a thrown error
Answer(e, err) == IF e = "handleAgentRequest" THEN toResponse(err) ELSE VercelCatch(err)

\* the checks both handleAgentRequest functions make before the fetch: the
\* error they throw, or NonError when they go on to the fetch
PreFetchError(input) ==
    IF InvalidInput(input)
    THEN ValidationError("Input is required and must be a string")
    ELSE IF ~Truthy(env.LANGBASE_API_KEY)
         THEN AuthError("LANGBASE_API_KEY missing from environment")
         ELSE NonError

\* what the upstream agent endpoint may do with the request
UpstreamOutcomes ==
    {[kind |-> "network_error", status |-> 0, body |-> "none"]}
    \cup {[kind |-> "response", status |-> 200, body |-> b] :
             b \in {"data", "success_envelope", "failure_envelope", "unparsable"}}
    \cup {[kind |-> "response", status |-> st, body |-> b] :
             st \in {400, 429, 500}, b \in {"invalid_key_message", "other_message", "unparsable"}}

\* the code of handleAgentRequest after the fetch: the error it throws, or
\* NonError when it returns successEnvelope(data)
PostFetchError(u) ==
    IF u.kind = "network_error" THEN PlainError("fetch failed")
    ELSE IF u.status # 200
         THEN IF u.status = 400 /\ u.body = "invalid_key_message"
              THEN AuthError("Langbase rejected the API key")
              ELSE ExternalServiceError("Langbase request failed", u.status)
         ELSE IF u.body = "unparsable" THEN PlainError("Unexpected token in JSON")
              ELSE NonError

\* the data relayed on success: the parsed upstream body
UpstreamData(u) ==
    [NoData EXCEPT !.inner = CASE u.body = "success_envelope" -> "success"
                               [] u.body = "failure_envelope" -> "failure"
                               [] OTHER -> "none"]

\* registerLangbaseEndpoint + handleAgentRequest (src/app/api/langbase.ts),
\* up to the fetch.  A body that does not parse is answered by the catch of
\* the route, whose body is not an envelope.
LangbaseEndpoint ==
    /\ pc = "handler" /\ entry = "handleAgentRequest"
    /\ IF ~request.parses
       THEN pc' = "done" /\ result' = RawResponse(500)
       ELSE IF PreFetchError(request.input) # NonError
            THEN pc' = "done" /\ result' = toResponse(PreFetchError(request.input))
            ELSE pc' = "fetch" /\ UNCHANGED result
    /\ UNCHANGED << entry, request, env, endOutcome, sessionOpen, contextData, outs,
                    stepMeta, site, phase, attempt, waits, inputMessages, lastRequest,
                    issued, siteCalls, siteLog, rw, ws, pair, calls, endCalls, threw, pending >>

\* the app.post route + handleAgentRequest of src/unnamed/part_001, up to the fetch
VercelEndpoint ==
    /\ pc = "handler" /\ entry = "vercelHandler"
    /\ IF ~request.parses
       THEN pc' = "done" /\ result' = VercelCatch(PlainError("Unexpected token in JSON"))
       ELSE IF PreFetchError(request.input) # NonError
            THEN pc' = "done" /\ result' = VercelCatch(PreFetchError(request.input))
            ELSE pc' = "fetch" /\ UNCHANGED result
    /\ UNCHANGED << entry, request, env, endOutcome, sessionOpen, contextData, outs,
                    stepMeta, site, phase, attempt, waits, inputMessages, lastRequest,
                    issued, siteCalls, siteLog, rw, ws, pair, calls, endCalls, threw, pending >>

\* the fetch of either handler and the code after it
HandlerFetch ==
    /\ pc = "fetch"
    /\ issued' = issued \cup {"fetch"}
    /\ pc' = "done"
    /\ \E u \in UpstreamOutcomes :
          result' = IF PostFetchError(u) # NonError
                    THEN Answer(entry, PostFetchError(u))
                    ELSE Response(successEnvelope(UpstreamData(u), << >>), 200)
    /\ UNCHANGED << entry, request, env, endOutcome, sessionOpen, contextData, outs,
                    stepMeta, site, phase, attempt, waits, inputMessages, lastRequest,
                    siteCalls, siteLog, rw, ws, pair, calls, endCalls, threw, pending >>

Handlers ==
    \/ LangbaseEndpoint
    \/ VercelEndpoint
    \/ HandlerFetch

Next == Workflow \/ Handlers

Spec == Init /\ [][Next]_vars

----------------------------------------------------------------------------
(* Runs in which the finalize hook of the provider session may fail        *)

\* await workflow.end() resolves, or rejects
EndOutcomes == {"ok", "throws"}

InitEnd ==
    /\ entry \in Entries
    /\ request \in Requests
    /\ env \in Envs
    /\ entry # "main" => env.OPENAI_API_KEY = Undefined
    /\ endOutcome \in EndOutcomes
    /\ pc = IF entry = "main" THEN "main" ELSE "handler"
    /\ sessionOpen = FALSE
    /\ contextData = 0
    /\ outs = NoOuts
    /\ stepMeta = << >>
    /\ site = "none"
    /\ phase = "none"
    /\ attempt = 0
    /\ waits = << >>
    /\ inputMessages = << >>
    /\ lastRequest = NoRequest
    /\ issued = {}
    /\ siteCalls = 0
    /\ siteLog = << >>
    /\ rw = NoRetryCall
    /\ ws = NoSerialization
    /\ pair = NoPair
    /\ calls = NoCount
    /\ endCalls = 0
    /\ threw = {}
    /\ pending = NoResult
    /\ result = NoResult

SpecEnd == InitEnd /\ [][Next]_vars

----------------------------------------------------------------------------
(* Runs whose external calls are counted, and in which every external call *)
(* eventually returns or fails                                             *)

InitCount ==
    /\ entry \in Entries
    /\ request = [parses |-> TRUE, input |-> [type |-> "string", text |-> "surge forecast for Delhi"]]
    /\ env = [LANGBASE_API_KEY |-> "user_key", OPENAI_API_KEY |-> Undefined]
    /\ endOutcome = "ok"
    /\ pc = IF entry = "main" THEN "main" ELSE "handler"
    /\ sessionOpen = FALSE
    /\ contextData = 0
    /\ outs = NoOuts
    /\ stepMeta = << >>
    /\ site = "none"
    /\ phase = "none"
    /\ attempt = 0
    /\ waits = << >>
    /\ inputMessages = << >>
    /\ lastRequest = NoRequest
    /\ issued = {}
    /\ siteCalls = 0
    /\ siteLog = << >>
    /\ rw = NoRetryCall
    /\ ws = NoSerialization
    /\ pair = NoPair
    /\ calls = ZeroCount
    /\ endCalls = 0
    /\ threw = {}
    /\ pending = NoResult
    /\ result = NoResult

\* every await of the invocation is eventually resumed
SpecCount == InitCount /\ [][Next]_vars /\ WF_vars(Next)

----------------------------------------------------------------------------
(* withRetries(fn, options) on its own                                     *)

\* the retries option of a call: negative, zero, up to the default
RetriesOptions == -1 .. Retries

\* what one invocation of fn may do: return a value, or throw
FnOutcomes ==
    {[ok |-> TRUE, value |-> v, error |-> NonError] : v \in {"value A", "value B"}}
    \cup {[ok |-> FALSE, value |-> "none", error |-> e] : e \in ProviderErrors}

InitRetry ==
    /\ entry = "main"
    /\ request = [parses |-> TRUE, input |-> [type |-> "string", text |-> "surge forecast for Delhi"]]
    /\ env = [LANGBASE_API_KEY |-> "user_key", OPENAI_API_KEY |-> Undefined]
    /\ endOutcome = "ok"
    /\ pc = "withRetries"
    /\ sessionOpen = FALSE
    /\ contextData = 0
    /\ outs = NoOuts
    /\ stepMeta = << >>
    /\ site = "none"
    /\ phase = "none"
    /\ attempt = 0
    /\ waits = << >>
    /\ inputMessages = << >>
    /\ lastRequest = NoRequest
    /\ issued = {}
    /\ siteCalls = 0
    /\ siteLog = << >>
    /\ rw \in {RetryCall(r) : r \in RetriesOptions}
    /\ ws = NoSerialization
    /\ pair = NoPair
    /\ calls = NoCount
    /\ endCalls = 0
    /\ threw = {}
    /\ pending = NoResult
    /\ result = NoResult

\* one turn of the loop of withRetries: the test of the while, the invocation
\* of fn, and the catch.  When the test fails the code throws lastErr, which
\* is never assigned.
WithRetries ==
    /\ rw.status = "running"
    /\ IF rw.attempt > rw.retries
       THEN rw' = [rw EXCEPT !.status = "threwLastErr", !.thrown = NonError]
       ELSE \E o \in FnOutcomes :
              LET called == [rw EXCEPT !.outcomes = Append(@, o)]
              IN  rw' = IF o.ok
                        THEN [called EXCEPT !.status = "returned", !.value = o.value]
                        ELSE IF RetryDecisionFor(rw.retries, rw.attempt, o.error) = "throw"
                             THEN [called EXCEPT !.status = "threw", !.thrown = o.error]
                             ELSE [called EXCEPT !.waits = Append(@, BackoffWait(rw.attempt)),
                                                 !.attempt = @ + 1]
    /\ UNCHANGED << entry, request, env, endOutcome, pc, sessionOpen, contextData, outs,
                    stepMeta, site, phase, attempt, waits, inputMessages, lastRequest,
                    issued, siteCalls, siteLog, ws, pair, calls, endCalls, threw, pending, result >>

NextRetry == WithRetries

SpecRetry == InitRetry /\ [][NextRetry]_vars

----------------------------------------------------------------------------
(* WorkflowStepError on its own: construction, then serialization          *)

\* the messages a WorkflowStepError is constructed with
StepErrorMessages == {"Failed to retrieve context data", "Step failed", EmptyString}

InitSerialize ==
    /\ entry = "main"
    /\ request = [parses |-> TRUE, input |-> [type |-> "string", text |-> "surge forecast for Delhi"]]
    /\ env = [LANGBASE_API_KEY |-> "user_key", OPENAI_API_KEY |-> Undefined]
    /\ endOutcome = "ok"
    /\ pc = "serialize"
    /\ sessionOpen = FALSE
    /\ contextData = 0
    /\ outs = NoOuts
    /\ stepMeta = << >>
    /\ site = "none"
    /\ phase = "none"
    /\ attempt = 0
    /\ waits = << >>
    /\ inputMessages = << >>
    /\ lastRequest = NoRequest
    /\ issued = {}
    /\ siteCalls = 0
    /\ siteLog = << >>
    /\ rw = NoRetryCall
    /\ pair = NoPair
    /\ calls = NoCount
    /\ ws \in {Construction(StepOrder[i], m, d) :
                  i \in 1..Len(StepOrder), m \in StepErrorMessages,
                  d \in {StepOrder[j] : j \in 1..Len(StepOrder)} \cup {"undefined"}}
    /\ endCalls = 0
    /\ threw = {}
    /\ pending = NoResult
    /\ result = NoResult

\* errorEnvelope(new WorkflowStepError(step, message, details)).error
Serialize ==
    /\ ws.status = "constructed"
    /\ ws' = [ws EXCEPT !.status = "serialized",
                        !.json = errorEnvelope(WorkflowStepError(ws.step, ws.message,
                                                                 ws.detailsStep)).error]
    /\ UNCHANGED << entry, request, env, endOutcome, pc, sessionOpen, contextData, outs,
                    stepMeta, site, phase, attempt, waits, inputMessages, lastRequest,
                    issued, siteCalls, siteLog, rw, pair, calls, endCalls, threw, pending, result >>

NextSerialize == Serialize

SpecSerialize == InitSerialize /\ [][NextSerialize]_vars

----------------------------------------------------------------------------
(* Concurrent invocations of healEyeWorkflow in one process                *)
(*                                                                         *)
(* Each invocation has its own position and thunk locals; stepMeta and the *)
(* step outputs live in frames, and FrameOf tells which frame an           *)
(* invocation's declarations (const stepMeta = [], let dataAnalysis = null *)
(* ..., inside the function body) refer to.  The invocations are past the  *)
(* credential check, with a valid input; their awaits interleave freely.   *)

Invocations == 1..MaxInvocations

\* mutant of FrameOf: stepMeta and the outputs are declared at module level
FrameOf_Shared(i) == 1

\* const stepMeta: StepResult[] = [] and the let declarations of the outputs
\* are local to healEyeWorkflow: every invocation has its own
FrameOf(i) == i

NoFrame == [stepMeta |-> << >>, outs |-> NoOuts]

\* the control record of an invocation that has just created its session
StartOfRun ==
    [pc |-> "collect", outs |-> NoOuts, stepMeta |-> << >>, site |-> "none",
     phase |-> "none", attempt |-> 0, waits |-> << >>, inputMessages |-> << >>,
     threw |-> {}, pending |-> NoResult]

\* what the provider may answer to the concurrent invocations: a text, or
\* one call of a registered tool; and one kind of failure
PairResponses(s) ==
    {r \in Responses(s) :
        /\ r.tool_calls = << >> => r.content # EmptyString
        /\ \A j \in 1..Len(r.tool_calls) :
              j = 1 /\ r.tool_calls[j] = [name |-> "fetch_weather_aqi_data", argsParse |-> TRUE]}

PairErrors == {PlainError("Internal server error")}

\* the outcomes of the await an invocation at k is suspended on
OutcomesAt(k) ==
    CASE k.pc = "collect" -> {[ok |-> TRUE, resp |-> NoResponse, err |-> NonError]}
                             \cup {[ok |-> FALSE, resp |-> NoResponse, err |-> e] : e \in PairErrors}
      [] k.pc = "call"    -> {[ok |-> TRUE, resp |-> r, err |-> NonError] : r \in PairResponses(k.site)}
                             \cup {[ok |-> FALSE, resp |-> NoResponse, err |-> e] : e \in PairErrors}
      [] k.pc = "finally" -> {[ok |-> TRUE, resp |-> NoResponse, err |-> NonError]}
      [] OTHER            -> {}

\* the code of healEyeWorkflow from one await to the next, given the outcome
\* of the await: the same code as in the actions of one invocation
Resume(k, o) ==
    CASE k.pc = "collect" ->
           IF o.ok THEN RetrieveReturned(k) ELSE RetrieveThrew(k, o.err)
      [] k.pc = "call" /\ k.phase = "primary" ->
           IF o.ok THEN OnResponse(k, k.site, o.resp, FALSE)
           ELSE PrimaryThrew(k, k.site, o.err)
      [] k.pc = "call" /\ k.phase = "fallback" ->
           IF o.ok THEN OnResponse(k, k.site, o.resp, TRUE)
           ELSE StepThrew(k, k.site, o.err)
      [] k.pc = "finally" -> [k EXCEPT !.pc = "done"]

\* the control record of invocation i, its stepMeta and outputs read from
\* the frame its declarations refer to
Loaded(i) ==
    [pair.inv[i].k EXCEPT !.stepMeta = pair.frames[FrameOf(i)].stepMeta,
                          !.outs = pair.frames[FrameOf(i)].outs]

InitPair ==
    /\ entry = "main"
    /\ request = [parses |-> TRUE, input |-> [type |-> "string", text |-> "surge forecast for Delhi"]]
    /\ env = [LANGBASE_API_KEY |-> "user_key", OPENAI_API_KEY |-> Undefined]
    /\ endOutcome = "ok"
    /\ pc = "invocations"
    /\ sessionOpen = FALSE
    /\ contextData = 0
    /\ outs = NoOuts
    /\ stepMeta = << >>
    /\ site = "none"
    /\ phase = "none"
    /\ attempt = 0
    /\ waits = << >>
    /\ inputMessages = << >>
    /\ lastRequest = NoRequest
    /\ issued = {}
    /\ siteCalls = 0
    /\ siteLog = << >>
    /\ rw = NoRetryCall
    /\ ws = NoSerialization
    /\ pair = [inv |-> [i \in Invocations |-> [k |-> StartOfRun, history |-> << >>]],
               frames |-> [j \in Invocations |-> NoFrame]]
    /\ calls = NoCount
    /\ endCalls = 0
    /\ threw = {}
    /\ pending = NoResult
    /\ result = NoResult

\* invocation i resumes from the await it is suspended on and runs to its
\* next await (or to its end)
Invocation(i) ==
    /\ \E o \in OutcomesAt(pair.inv[i].k) :
          LET k2 == Resume(Loaded(i), o)
          IN  pair' = [pair EXCEPT
                  !.inv[i] = [k |-> [k2 EXCEPT !.stepMeta = << >>, !.outs = NoOuts],
                              history |-> Append(@.history, o)],
                  !.frames[FrameOf(i)] = [stepMeta |-> k2.stepMeta, outs |-> k2.outs]]
    /\ UNCHANGED << entry, request, env, endOutcome, pc, sessionOpen, contextData, outs,
                    stepMeta, site, phase, attempt, waits, inputMessages, lastRequest,
                    issued, siteCalls, siteLog, rw, ws, calls, endCalls, threw, pending, result >>

NextPair == \E i \in Invocations : Invocation(i)

SpecPair == InitPair /\ [][NextPair]_vars

----------------------------------------------------------------------------
(* Properties                                                              *)

\* the invocation is one of healEyeWorkflow with the credential configured
\* and a non-empty string input
ValidRun ==
    /\ entry = "main" /\ request.parses
    /\ ~InvalidInput(request.input)
    /\ Truthy(env.LANGBASE_API_KEY)

ContextCollected ==
    /\ Len(stepMeta) >= 1
    /\ stepMeta[1] = StepOk("collect_context_data")

Ids(meta) == [i \in 1..Len(meta) |-> meta[i].id]

IsDependencySkip(r, id) ==
    r.id = id /\ r.status = "skipped" /\ r.error.code = "DEPENDENCY_FAILED"

AnalysisSteps ==
    {"generate_predictions", "generate_recommendations", "generate_public_alerts"}

\* C1: if the context retrieval of collect_context_data fails, the workflow
\* returns success=false with code WORKFLOW_STEP_ERROR and
\* step=collect_context_data, no reasoning call of any later step is issued,
\* and the StepResult sequence is exactly [collect_context_data: error].
C1_ContextFailureAborts ==
    "collect_context_data" \in threw =>
        /\ issued \cap Sites = {}
        /\ Len(stepMeta) = 1
        /\ stepMeta[1].id = "collect_context_data"
        /\ stepMeta[1].status = "error"
        /\ pending.kind = "envelope"
        /\ pending.envelope.success = FALSE
        /\ pending.envelope.error.code = "WORKFLOW_STEP_ERROR"
        /\ pending.envelope.error.step = "collect_context_data"
        /\ pc \in {"finally", "done"}
        /\ (pc = "done" => result = pending)

C1_Witness ==
    /\ pc = "done"
    /\ "collect_context_data" \in threw
    /\ result.kind = "envelope"
    /\ result.envelope.error.code = "WORKFLOW_STEP_ERROR"

\* C2: when context collection succeeded and analyze_realtime_data fails, the
\* failure is not re-raised: the sequence records analyze_realtime_data as
\* error, the next three steps as skipped with DEPENDENCY_FAILED (none of them
\* issues a call), and the conversational step is executed and, when its call
\* succeeds, recorded ok in a success envelope.
C2_AnalysisFailureDegrades ==
    "analyze_realtime_data" \in threw =>
        /\ ContextCollected
        /\ Len(stepMeta) >= 5
        /\ stepMeta[2].id = "analyze_realtime_data"
        /\ stepMeta[2].status = "error"
        /\ IsDependencySkip(stepMeta[3], "generate_predictions")
        /\ IsDependencySkip(stepMeta[4], "generate_recommendations")
        /\ IsDependencySkip(stepMeta[5], "generate_public_alerts")
        /\ issued \cap {"predict", "recommend", "alert"} = {}
        /\ (pc = "call" => site = "converse")
        /\ (pc \in {"finally", "done"} => "converse" \in issued)
        /\ (pc = "done" /\ "generate_conversational_response" \notin threw =>
                /\ Len(stepMeta) = 6
                /\ stepMeta[6] = StepOk("generate_conversational_response")
                /\ result.kind = "envelope"
                /\ result.envelope.success
                /\ result.envelope.steps = stepMeta)

\* the failure is one of malformed tool-call arguments
C2_Witness ==
    /\ pc = "done"
    /\ "analyze_realtime_data" \in threw
    /\ stepMeta[2].error.message = "Unexpected token in JSON"
    /\ Len(stepMeta) = 6
    /\ result.envelope.success

\* C3: for every non-empty string input with the credential configured the
\* workflow returns success=true with a non-null conversational response, even
\* if analysis steps fail.  Stated for the runs in which context collection
\* and the conversational call did not fail.
C3_AlwaysConversational ==
    (/\ pc = "done" /\ ValidRun
     /\ "collect_context_data" \notin threw
     /\ "generate_conversational_response" \notin threw) =>
        /\ result.kind = "envelope"
        /\ result.envelope.success
        /\ result.envelope.data.conversational_response # Null

\* C4: if generate_predictions, generate_recommendations or
\* generate_public_alerts runs and fails, the workflow still completes with a
\* success envelope whose detailed_analysis keeps the outputs of the earlier
\* steps.
C4_PartialResultsKept ==
    (pc = "done" /\ threw \cap AnalysisSteps # {}) =>
        /\ result.kind = "envelope"
        /\ result.envelope.success
        /\ result.envelope.data.data_analysis = outs.dataAnalysis
        /\ result.envelope.data.predictions = outs.prediction
        /\ result.envelope.data.recommendations = outs.recommendations

\* C5: in every run in which context collection succeeds, the reasoning call
\* of generate_conversational_response is attempted before the run ends.
C5_ConversationalAttempted ==
    (pc = "done" /\ ContextCollected) => "converse" \in issued

\* C6: whenever a run gets past context collection, the StepResult sequence at
\* termination has exactly 6 entries, one per step, in pipeline order.
C6_SixEntries ==
    (pc = "done" /\ ContextCollected) => Ids(stepMeta) = StepOrder

\* C7: for each gated step, when the output of its immediate predecessor is
\* absent the step issues no provider call and exactly one StepResult with
\* status skipped and code DEPENDENCY_FAILED is recorded for it.
C7_AbsentPredecessorSkipped ==
    (pc = "done" /\ ContextCollected) =>
        \A idx \in 3..5 :
            ~Truthy(GateInput(idx, outs)) =>
                /\ SiteOfStep(idx) \notin issued
                /\ Cardinality({i \in 1..Len(stepMeta) :
                                    stepMeta[i].id = StepOrder[idx]}) = 1
                /\ \E i \in 1..Len(stepMeta) :
                        IsDependencySkip(stepMeta[i], StepOrder[idx])

\* C8: every invocation that opened a provider session calls workflow.end()
\* exactly once, after the last step activity, on every exit path; an
\* invocation that opened none never calls it.
C8_EndExactlyOnce ==
    /\ endCalls \in {0, 1}
    /\ (endCalls = 1 <=> (pc = "done" /\ sessionOpen))
    /\ (pc = "finally" => sessionOpen /\ pending.kind = "envelope")
    /\ (endCalls = 1 => ~ENABLED Next)

\* the exit path of an exception escaping a later step
C8_Witness ==
    /\ pc = "done"
    /\ endCalls = 1
    /\ "generate_recommendations" \in threw

\* C9: every invocation of healEyeWorkflow ends by returning one envelope; no
\* exit path throws a raw exception to the caller.
C9_AlwaysEnvelope ==
    (pc = "done" /\ entry = "main" /\ request.parses) => result.kind = "envelope"

\* C10: with no LANGBASE_API_KEY configured, a request with a valid input
\* yields success=false with code AUTH_ERROR and no network call, at the
\* workflow entry point and at the HTTP handlers.
C10_MissingCredentialAuthError ==
    (/\ pc = "done" /\ request.parses /\ ~InvalidInput(request.input)
     /\ ~Truthy(env.LANGBASE_API_KEY)) =>
        /\ result.kind \in {"envelope", "response"}
        /\ result.envelope.success = FALSE
        /\ result.envelope.error.code = "AUTH_ERROR"
        /\ issued = {}

\* C11: a request whose input is absent, empty or not a string yields a
\* failure envelope with code VALIDATION_ERROR and no network call, at the
\* workflow entry point and at the HTTP handlers.  Stated for the requests
\* whose body parses, with the credential configured.
C11_InvalidInputValidationError ==
    (request.parses /\ InvalidInput(request.input) /\ Truthy(env.LANGBASE_API_KEY)) =>
        /\ issued = {}
        /\ (pc = "done" =>
                /\ result.kind \in {"envelope", "response"}
                /\ result.envelope.success = FALSE
                /\ result.envelope.error.code = "VALIDATION_ERROR")

\* the outcomes os are all failures with a transient-overload message
AllOverloaded(os) ==
    \A i \in 1..Len(os) : ~os[i].ok /\ os[i].error.message \in OverloadedMessages

\* the waits of the defaults delayMs = 500, factor = 2, in milliseconds
ExpectedWaits == << 500, 1000, 2000 >>

RECURSIVE SumSeq(_)
SumSeq(q) == IF q = << >> THEN 0 ELSE Head(q) + SumSeq(Tail(q))

\* C12: for every k with 0 <= k <= retries, if the operation fails on its first
\* k invocations with a transient-overload message and then succeeds,
\* withRetries returns that value after exactly k+1 invocations and exactly k
\* waits, the i-th wait lasting delayMs * factor^i: after k <= retries such
\* failures the call is still running with k waits made, and a call that
\* returned did so with the value of its last invocation, after k overload
\* failures and the k waits 500, 1000, 2000.
C12_RetriesThenSuccess ==
    LET n == Len(rw.outcomes)
    IN  /\ (rw.retries >= 0 /\ n <= rw.retries /\ AllOverloaded(rw.outcomes)) =>
                /\ rw.status = "running"
                /\ rw.attempt = n
                /\ rw.waits = SubSeq(ExpectedWaits, 1, n)
        /\ rw.status = "returned" =>
                /\ n >= 1
                /\ rw.outcomes[n].ok
                /\ rw.value = rw.outcomes[n].value
                /\ AllOverloaded(SubSeq(rw.outcomes, 1, n - 1))
                /\ n - 1 <= rw.retries
                /\ rw.waits = SubSeq(ExpectedWaits, 1, n - 1)

\* k = 2 with the defaults: two waits, 500 then 1000
C12_Witness ==
    /\ rw.status = "returned"
    /\ rw.retries = Retries
    /\ Len(rw.outcomes) = 3
    /\ rw.waits = << 500, 1000 >>

\* C13: if every invocation fails with a transient-overload message,
\* withRetries invokes the operation exactly retries+1 times, waits exactly
\* retries times (500, 1000, 2000 ms, 3500 ms in total with the defaults),
\* does not wait after the last failed attempt and re-raises the error of the
\* last attempt; the operation is never invoked more than retries+1 times.
C13_RetriesExhausted ==
    LET n == Len(rw.outcomes)
    IN  /\ n <= (IF rw.retries >= 0 THEN rw.retries + 1 ELSE 0)
        /\ (rw.retries >= 0 /\ rw.status \notin {"running", "none"}
                /\ AllOverloaded(rw.outcomes)) =>
                /\ rw.status = "threw"
                /\ n = rw.retries + 1
                /\ rw.thrown = rw.outcomes[n].error
                /\ Len(rw.waits) = rw.retries
                /\ rw.waits = SubSeq(ExpectedWaits, 1, rw.retries)
                /\ (rw.retries = Retries => SumSeq(rw.waits) = 3500)

C13_Witness ==
    /\ rw.status = "threw"
    /\ rw.retries = Retries
    /\ Len(rw.outcomes) = 4
    /\ AllOverloaded(rw.outcomes)

\* C14: if an invocation fails with an error whose message does not match the
\* transient-overload pattern (or that has no message), withRetries re-raises
\* that same error at once: no wait follows it and no further invocation is
\* made, whatever number of attempts remains or of overload failures preceded.
C14_OtherErrorRethrown ==
    LET n == Len(rw.outcomes)
    IN  \A i \in 1..n :
            (~rw.outcomes[i].ok /\ rw.outcomes[i].error.message \notin OverloadedMessages) =>
                /\ i = n
                /\ rw.status = "threw"
                /\ rw.thrown = rw.outcomes[i].error
                /\ Len(rw.waits) = n - 1
                /\ rw.attempt = n - 1

\* an error with no message, after two overload failures, attempts remaining
C14_Witness ==
    /\ rw.status = "threw"
    /\ rw.retries = Retries
    /\ Len(rw.outcomes) = 3
    /\ rw.thrown = NonError
    /\ rw.waits = << 500, 1000 >>

\* the calls logged are those of a reasoning call-site
ReasoningLog == siteLog # << >> /\ siteLog[1].request.site \in Sites

\* the first retries+1 calls logged went to the primary model and each failed
\* with a transient-overload message
PrimaryExhausted ==
    /\ Len(siteLog) >= Retries + 1
    /\ \A i \in 1..(Retries + 1) :
          /\ siteLog[i].request.model = PrimaryModel
          /\ siteLog[i].outcome = "overloaded"

\* C15: at every reasoning call-site the alternate model is called if and only
\* if the primary model was called retries+1 times and each call failed with a
\* transient-overload message; the fallback call carries the request of the
\* primary calls (same instructions, conversation and embedded results), is
\* the only one and is not retried; if it fails the step's thunk throws and no
\* further call is made at the call-site.
C15_FallbackIffExhausted ==
    ReasoningLog =>
        LET n == Len(siteLog)
            s == siteLog[1].request.site
        IN  /\ n <= Retries + 2
            /\ \A i \in 1..n :
                  siteLog[i].request.model = FallbackModel =>
                      /\ i = Retries + 2
                      /\ PrimaryExhausted
                      /\ siteLog[i].request = [siteLog[1].request EXCEPT !.model = FallbackModel]
                      /\ (siteLog[i].outcome # "returned" =>
                              /\ StepOfSite(s) \in threw
                              /\ ~(pc = "call" /\ site = s))
            /\ PrimaryExhausted =>
                  \/ n = Retries + 1 /\ pc = "call" /\ site = s /\ phase = "fallback"
                  \/ n = Retries + 2 /\ siteLog[n].request.model = FallbackModel
            /\ phase = "fallback" => n = Retries + 1 /\ PrimaryExhausted

\* the fallback call of generate_predictions was made and failed
C15_Witness ==
    /\ ReasoningLog
    /\ siteLog[1].request.site = "predict"
    /\ Len(siteLog) = Retries + 2
    /\ siteLog[Retries + 2].request.model = FallbackModel
    /\ siteLog[Retries + 2].outcome = "failed"
    /\ pc = "done"

\* the primary calls of the call-site logged were exhausted and its fallback
\* call failed too
FallbackFailed ==
    /\ ReasoningLog
    /\ PrimaryExhausted
    /\ Len(siteLog) = Retries + 2
    /\ siteLog[Retries + 2].outcome # "returned"

\* C16: when the primary call fails with transient overload on every attempt
\* and the single fallback call fails too, the error reported for it (in the
\* StepResult of analyze_realtime_data, or in the returned envelope for the
\* later steps) has code EXTERNAL_SERVICE_ERROR.
C16_FallbackFailureIsExternalServiceError ==
    FallbackFailed =>
        IF siteLog[1].request.site \in {"analyze", "summarize"}
        THEN /\ Len(stepMeta) >= 2
             /\ stepMeta[2].status = "error"
             /\ stepMeta[2].error.code = "EXTERNAL_SERVICE_ERROR"
        ELSE /\ pending.kind = "envelope"
             /\ pending.envelope.error.code = "EXTERNAL_SERVICE_ERROR"

\* C17: every fallback activation, at every reasoning call-site of every step,
\* appends a system note recording the fallback to the step's working
\* conversation, and the note is part of the conversation of any reasoning
\* call the step makes afterwards.
C17_FallbackNoted ==
    ReasoningLog =>
        \A i \in 1..Len(siteLog) :
            (siteLog[i].request.model = FallbackModel /\ siteLog[i].outcome = "returned") =>
                /\ siteLog[i].noted
                /\ (pc = "call" /\ StepOfSite(site) = StepOfSite(siteLog[1].request.site)) =>
                        \E j \in 1..Len(inputMessages) : inputMessages[j].role = "system"

\* the call logged is the context retrieval of collect_context_data
RetrievalLog == siteLog # << >> /\ siteLog[1].request.site = "retrieve"

\* some requested call of a registered tool has arguments that do not parse
Malformed(tcs) ==
    \E i \in 1..Len(tcs) : tcs[i].name \in RegisteredTools /\ ~tcs[i].argsParse

AnalyzeReturned ==
    /\ ReasoningLog
    /\ siteLog[1].request.site = "analyze"
    /\ siteLog[Len(siteLog)].outcome = "returned"

\* the tool calls that response requested
RequestedTools == siteLog[Len(siteLog)].tool_calls

\* the position of the assistant message in inputMessages: after the
\* conversation of the request and the fallback note, if any
AssistantAt ==
    Len(siteLog[Len(siteLog)].request.conversation)
        + (IF siteLog[Len(siteLog)].noted THEN 1 ELSE 0) + 1

\* C19: a tool call whose name is none of the three registered tools yields
\* the tool result "Tool not found", inserted as that call's tool turn; the
\* remaining tool calls of the response are still processed, the summarize
\* call is still issued, and analyze_realtime_data is not failed by it (it
\* fails only when a registered tool's arguments do not parse).
C19_UnknownToolNotFound ==
    /\ AnalyzeReturned =>
          LET tcs == RequestedTools
          IN  /\ "analyze_realtime_data" \in threw => Malformed(tcs)
              /\ \A i \in 1..Len(tcs) :
                    (tcs[i].name \notin RegisteredTools /\ ~Malformed(tcs)) =>
                        /\ pc = "call" /\ site = "summarize" /\ phase = "primary"
                        /\ Len(inputMessages) = AssistantAt + Len(tcs)
                        /\ inputMessages[AssistantAt + i] =
                              [role |-> "tool", name |-> tcs[i].name, tool_call_id |-> i,
                               content |-> "Tool not found"]
    /\ lastRequest.site = "summarize" =>
          \A j \in 1..Len(lastRequest.conversation) :
              LET m == lastRequest.conversation[j]
              IN  m.role = "tool" =>
                      (m.content = "Tool not found" <=> m.name \notin RegisteredTools)

\* the summarize call was issued with the turn of an unregistered tool
\* followed by the turn of a registered one, and the step did not fail
C19_Witness ==
    /\ lastRequest.site = "summarize"
    /\ Len(lastRequest.conversation) = 4
    /\ lastRequest.conversation[3].content = "Tool not found"
    /\ lastRequest.conversation[4].content = "hospital json"
    /\ "analyze_realtime_data" \notin threw

\* the conversation ends with an assistant message followed by n >= 1 tool
\* turns carrying the call ids 1..n in order
ToolTurnsAfterAssistant(conv) ==
    \E a \in 1..Len(conv) :
        /\ conv[a].role = "assistant"
        /\ Len(conv) > a
        /\ \A j \in 1..Len(conv) : j < a => conv[j].role \in {"user", "system"}
        /\ \A i \in 1..(Len(conv) - a) :
              /\ conv[a + i].role = "tool"
              /\ conv[a + i].tool_call_id = i

\* C20 as stated: when the first analysis response requests n >= 1 tool calls
\* the conversation passed to the summarize call holds, after the assistant
\* message, exactly n tool turns in request order, each tagged with the name
\* and call id of its request; the summarize call is issued after all n
\* results are inserted, and it is issued if and only if n >= 1.
C20_SummarizeIffToolCalls ==
    AnalyzeReturned =>
        LET tcs == RequestedTools
        IN  /\ (pc = "call" /\ site = "summarize") <=> Len(tcs) >= 1
            /\ Len(tcs) >= 1 =>
                  /\ Len(inputMessages) = AssistantAt + Len(tcs)
                  /\ \A i \in 1..Len(tcs) :
                        /\ inputMessages[AssistantAt + i].role = "tool"
                        /\ inputMessages[AssistantAt + i].name = tcs[i].name
                        /\ inputMessages[AssistantAt + i].tool_call_id = i

\* C20 amended: the summarize call is issued if and only if n >= 1 and the
\* arguments of every requested call of a registered tool parse; a call whose
\* arguments do not parse fails analyze_realtime_data before any summarize
\* call.  When it is issued, its conversation holds, after the assistant
\* message, exactly n tool turns in request order, each tagged with the name
\* and call id of its request and carrying that tool's result, all inserted
\* before the call.
C20_ToolTurnsBeforeSummarize ==
    /\ AnalyzeReturned =>
          LET tcs == RequestedTools
          IN  /\ (pc = "call" /\ site = "summarize") <=> (Len(tcs) >= 1 /\ ~Malformed(tcs))
              /\ Malformed(tcs) =>
                    "analyze_realtime_data" \in threw /\ "summarize" \notin issued
              /\ (Len(tcs) >= 1 /\ ~Malformed(tcs)) =>
                    /\ phase = "primary" /\ "summarize" \notin issued
                    /\ Len(inputMessages) = AssistantAt + Len(tcs)
                    /\ inputMessages[AssistantAt].role = "assistant"
                    /\ \A i \in 1..Len(tcs) :
                          inputMessages[AssistantAt + i] =
                              [role |-> "tool", name |-> tcs[i].name, tool_call_id |-> i,
                               content |-> ToolResult(tcs[i].name)]
    /\ (pc = "call" /\ site = "summarize") => ToolTurnsAfterAssistant(inputMessages)
    /\ lastRequest.site = "summarize" =>
          /\ ToolTurnsAfterAssistant(lastRequest.conversation)
          /\ (pc = "call" /\ site = "summarize") => lastRequest.conversation = inputMessages

\* the summarize call was issued with two tool turns in request order
C20_Witness ==
    /\ lastRequest.site = "summarize"
    /\ Len(lastRequest.conversation) = 4
    /\ lastRequest.conversation[3].name = "analyze_health_trends"
    /\ lastRequest.conversation[3].tool_call_id = 1
    /\ lastRequest.conversation[4].name = "fetch_weather_aqi_data"
    /\ lastRequest.conversation[4].tool_call_id = 2

\* the error objects errorEnvelope has produced that the state holds: those of
\* the StepResults with status error and of the failure envelopes
ReportedErrors ==
    {stepMeta[i].error : i \in {j \in 1..Len(stepMeta) : stepMeta[j].status = "error"}}
    \cup (IF pending.kind = "envelope" /\ ~pending.envelope.success
          THEN {pending.envelope.error} ELSE {})
    \cup (IF result.kind \in {"envelope", "response"} /\ ~result.envelope.success
          THEN {result.envelope.error} ELSE {})

ErrorKinds ==
    {"VALIDATION_ERROR", "AUTH_ERROR", "EXTERNAL_SERVICE_ERROR", "WORKFLOW_STEP_ERROR",
     "UNEXPECTED_ERROR"}

\* C21 as stated: every error object produced by errorEnvelope has a code
\* among the five kinds; any uncategorized failure, a thrown value that is not
\* an Error instance included, is reported as UNEXPECTED_ERROR.
C21_FiveErrorKinds ==
    \A e \in ReportedErrors : e.code \in ErrorKinds

\* C21 amended: every error object produced by errorEnvelope has a code among
\* the five kinds or the code UNKNOWN.  An Error instance that is no
\* BaseAppError is reported as UNEXPECTED_ERROR with its own message; a thrown
\* value that is not an Error instance is reported with code UNKNOWN and the
\* message 'Unknown error'.
C21_ErrorKindsAndUnknown ==
    /\ \A e \in ReportedErrors :
          /\ e.code \in ErrorKinds \cup {"UNKNOWN"}
          /\ e.code = "UNKNOWN" <=> e.message = "Unknown error"
          /\ e.code = "UNEXPECTED_ERROR" => e.message # Undefined
    /\ (RetrievalLog /\ "collect_context_data" \in threw) =>
          stepMeta[1].error.code \in {"UNEXPECTED_ERROR", "UNKNOWN"}

\* the retrieval threw a value that is not an Error instance
C21_Witness ==
    /\ pc = "done"
    /\ RetrievalLog
    /\ stepMeta[1].status = "error"
    /\ stepMeta[1].error.code = "UNKNOWN"

\* the StepResults recorded for step id
EntriesOf(id) == {i \in 1..Len(stepMeta) : stepMeta[i].id = id}

\* C23: each of generate_predictions, generate_recommendations and
\* generate_public_alerts is executed if and only if the StepResult of its
\* immediate predecessor has status ok; a step is never recorded skipped after
\* a predecessor that was recorded ok.  Stated for the runs with a valid
\* input and the credential configured.
C23_GateFollowsPredecessorStatus ==
    ValidRun => \A idx \in 3..5 :
        /\ SiteOfStep(idx) \in issued =>
              /\ Len(stepMeta) >= idx - 1
              /\ stepMeta[idx - 1] = StepOk(StepOrder[idx - 1])
        /\ \A i \in EntriesOf(StepOrder[idx]) :
              stepMeta[i].status = "skipped" =>
                  /\ i > 1
                  /\ stepMeta[i - 1].id = StepOrder[idx - 1]
                  /\ stepMeta[i - 1].status # "ok"

\* the steps that started executing: those that issued an external call
Started ==
    {StepOfSite(s) : s \in issued \cap Sites}
    \cup (IF "retrieve" \in issued THEN {"collect_context_data"} ELSE {})

\* C24: every step that starts executing appends exactly one StepResult
\* before the workflow terminates: status ok when its thunk returns, status
\* error carrying the structured error when its thunk fails; this holds for
\* all six steps.  Stated for the runs with a valid input and the credential
\* configured.
C24_OneStepResultPerStartedStep ==
    (pc = "done" /\ ValidRun) =>
        \A id \in Started :
            /\ Cardinality(EntriesOf(id)) = 1
            /\ \A i \in EntriesOf(id) :
                  /\ stepMeta[i].status = (IF id \in threw THEN "error" ELSE "ok")
                  /\ stepMeta[i].status = "error" => stepMeta[i].error.code # ""

IsPrefix(a, b) == Len(a) <= Len(b) /\ SubSeq(b, 1, Len(a)) = a

\* the position of step id in the pipeline
StepIndex(id) == CHOOSE i \in 1..Len(StepOrder) : StepOrder[i] = id

\* C25: at every reachable state the StepResult sequence is append-only and
\* ordered: its ids are a prefix of the pipeline order with no id repeated, an
\* appended entry is never changed or removed, every transition issues at most
\* one external call, and the external call of a step is issued only when the
\* StepResults of all the preceding steps, and no other, have been appended.
C25_AppendOnlyOrdered ==
    [][/\ IsPrefix(stepMeta, stepMeta')
       /\ Ids(stepMeta') = SubSeq(StepOrder, 1, Len(stepMeta'))
       /\ siteLog' # siteLog =>
             /\ \/ Len(siteLog') = 1
                \/ siteLog' = Append(siteLog, siteLog'[Len(siteLog')])
             /\ pc \in {"collect", "call"}
             /\ pc = "collect" => stepMeta = << >>
             /\ pc = "call" => Len(stepMeta) = StepIndex(StepOfSite(site)) - 1]_vars

\* the conversational call was issued after three skipped entries
C25_Witness ==
    /\ pc = "done"
    /\ Len(stepMeta) = 6
    /\ stepMeta[3].status = "skipped"
    /\ stepMeta[5].status = "skipped"
    /\ "converse" \in issued

\* the fields of detailed_analysis of envelope data d, by producing step
DetailedAnalysis(d) ==
    [analyze_realtime_data |-> d.data_analysis,
     generate_predictions |-> d.predictions,
     generate_recommendations |-> d.recommendations,
     generate_public_alerts |-> d.public_alerts]

\* C26: in every success envelope each field of detailed_analysis is non-null
\* only if the StepResult of the step that produces it has status ok; for a
\* step recorded skipped or error the field is null.
C26_FieldsOnlyFromOkSteps ==
    (result.kind = "envelope" /\ result.envelope.success) =>
        \A id \in DOMAIN DetailedAnalysis(result.envelope.data) :
            LET v == DetailedAnalysis(result.envelope.data)[id]
                steps == result.envelope.steps
                E == {i \in 1..Len(steps) : steps[i].id = id}
            IN  /\ v # Null => \E i \in E : steps[i].status = "ok"
                /\ \A i \in E : steps[i].status \in {"skipped", "error"} => v = Null

\* a success envelope after a failed analysis and three skipped steps
C26_Witness ==
    /\ result.kind = "envelope"
    /\ result.envelope.success
    /\ result.envelope.steps[2].status = "error"
    /\ result.envelope.steps[3].status = "skipped"
    /\ result.envelope.data.data_analysis = Null
    /\ result.envelope.data.predictions = Null

\* the texts the reasoning provider produces (an empty one included)
ProviderTexts == {OutputText(s) : s \in Sites} \cup {EmptyString}

\* C27 as stated: the analysis output handed to later steps is always text
\* produced by the reasoning provider, never an invented substitute: when the
\* analysis response carries no tool calls and no content the output of
\* analyze_realtime_data is absent and generate_predictions is skipped.
C27_NoInventedAnalysis ==
    /\ outs.dataAnalysis \in {Null} \cup ProviderTexts
    /\ (/\ AnalyzeReturned /\ RequestedTools = << >>
        /\ siteLog[Len(siteLog)].content = EmptyString) =>
            /\ ~Truthy(outs.dataAnalysis)
            /\ "predict" \notin issued
            /\ pc = "call" => site # "predict"

\* C27 amended: the analysis output handed to later steps is text produced by
\* the reasoning provider or the placeholder 'No data analysis performed'.
\* When the analysis response carries no tool calls and no content, the output
\* of analyze_realtime_data is that placeholder, the step is recorded ok and
\* generate_predictions is executed with the placeholder embedded in its
\* instructions; the placeholder arises in no other way.
C27_PlaceholderAnalysis ==
    /\ outs.dataAnalysis \in {Null, "No data analysis performed"} \cup ProviderTexts
    /\ (AnalyzeReturned /\ RequestedTools = << >>) =>
            /\ outs.dataAnalysis =
                  (IF siteLog[Len(siteLog)].content = EmptyString
                   THEN "No data analysis performed" ELSE siteLog[Len(siteLog)].content)
            /\ stepMeta[2] = StepOk("analyze_realtime_data")
            /\ pc = "call" /\ site = "predict"
    /\ outs.dataAnalysis = "No data analysis performed" => "summarize" \notin issued
    /\ lastRequest.site = "predict" => lastRequest.embedded.dataAnalysis = outs.dataAnalysis

\* generate_predictions was called with the placeholder embedded
C27_Witness ==
    /\ lastRequest.site = "predict"
    /\ lastRequest.embedded.dataAnalysis = "No data analysis performed"
    /\ stepMeta[2] = StepOk("analyze_realtime_data")

\* OPENAI_API_KEY is set, non-empty and does not start with 'AIzaSy'
OpenAIConfigured == env.OPENAI_API_KEY \in {"sk-key"}

\* C28: in every step the primary model is the OpenAI model if and only if
\* OPENAI_API_KEY is set, non-empty and does not start with 'AIzaSy', else the
\* Gemini model; the fallback model is the other of the two, so the two are
\* never the same; all steps of an invocation select the same primary (the
\* first call of every call-site goes to the model the environment fixes).
C28_ModelSelection ==
    ReasoningLog =>
        LET primary == IF OpenAIConfigured THEN OPENAI_MODEL ELSE GEMINI_MODEL
            other == IF OpenAIConfigured THEN GEMINI_MODEL ELSE OPENAI_MODEL
        IN  /\ primary # other
            /\ \A i \in 1..Len(siteLog) :
                  siteLog[i].request.model = (IF i <= Retries + 1 THEN primary ELSE other)
            /\ lastRequest = siteLog[Len(siteLog)].request

\* a key shaped like a Gemini key in OPENAI_API_KEY: Gemini is the primary
\* and the OpenAI model the fallback
C28_Witness ==
    /\ ReasoningLog
    /\ env.OPENAI_API_KEY = "AIzaSy-key"
    /\ siteLog[1].request.model = GEMINI_MODEL
    /\ Len(siteLog) = Retries + 2
    /\ siteLog[Retries + 2].request.model = OPENAI_MODEL
    /\ siteLog[1].request.site = "converse"

\* C29: the serialized form (toJSON, hence the error envelope) of a
\* WorkflowStepError constructed for step s has code WORKFLOW_STEP_ERROR,
\* retryable false by default, and step = s, whatever details argument is
\* passed to the constructor.
C29_StepErrorCarriesStep ==
    ws.status = "serialized" =>
        /\ ws.json.code = "WORKFLOW_STEP_ERROR"
        /\ ws.json.retryable = "false"
        /\ ws.json.message = ws.message
        /\ ws.json.step = ws.step

\* the HTTP status of an error kind, where the kind fixes it
StatusOfKind(code) ==
    CASE code = "VALIDATION_ERROR" -> {400}
      [] code = "AUTH_ERROR" -> {401}
      [] code = "EXTERNAL_SERVICE_ERROR" -> {u.status : u \in UpstreamOutcomes} \ {0, 200}
      [] OTHER -> {500}

\* C30: for the same request, environment and upstream behaviour both HTTP
\* endpoint implementations return the same envelope and the same HTTP
\* status, the status of the error kind: 400 for VALIDATION_ERROR, 401 for
\* AUTH_ERROR, the upstream status for EXTERNAL_SERVICE_ERROR, 500 for any
\* other failure, 200 on success.  Stated for each implementation, for the
\* requests whose body parses: its answer is an envelope with that status.
C30_StatusMatchesErrorKind ==
    (pc = "done" /\ entry # "main" /\ request.parses) =>
        /\ result.kind = "response"
        /\ IF result.envelope.success
           THEN result.httpStatus = 200
           ELSE result.httpStatus \in StatusOfKind(result.envelope.error.code)

\* what an invocation run alone reaches with the provider outcomes h
RECURSIVE Solo(_)
Solo(h) ==
    IF h = << >> THEN StartOfRun
    ELSE Resume(Solo(SubSeq(h, 1, Len(h) - 1)), h[Len(h)])

\* C22: for any interleaving of concurrent workflow invocations, neither
\* reads or writes state of the other: at every point the StepResult
\* sequence, the step outputs and the completion of each invocation (hence
\* its returned envelope) are those it would have if run alone with the same
\* provider outcomes, and hold only the results of its own steps.
C22_InvocationsIsolated ==
    pair # NoPair =>
        \A i \in Invocations :
            /\ Loaded(i) = Solo(pair.inv[i].history)
            /\ Len(Loaded(i).stepMeta) <= Len(StepOrder)
            /\ Loaded(i).pc = "done" =>
                  Loaded(i).pending.kind = "envelope"
                  /\ (Loaded(i).pending.envelope.success =>
                          Loaded(i).pending.envelope.steps = Loaded(i).stepMeta)

\* two invocations in flight, at different steps, with different results
C22_Witness ==
    /\ pair # NoPair
    /\ pair.inv[1].k.pc = "call" /\ pair.inv[1].k.site = "recommend"
    /\ pair.inv[2].k.pc = "call" /\ pair.inv[2].k.site = "converse"
    /\ pair.frames[1].outs.prediction = "prediction text"
    /\ pair.frames[2].outs.dataAnalysis = Null

\* C31: every response of POST /api/langbase, the response to a request body
\* that cannot be parsed as JSON included, is a ResultEnvelope: on failure
\* `error` is an object with a code and a message, and no field outside the
\* envelope shape (such as a stack trace) is returned.
C31_EveryResponseIsEnvelope ==
    (pc = "done" /\ entry # "main") =>
        /\ result.kind = "response"
        /\ ~result.envelope.success =>
              Truthy(result.envelope.error.code) /\ Truthy(result.envelope.error.message)

\* the provider a model name belongs to, and the provider that issued a key
ProviderOfModel(model) == IF model = OPENAI_MODEL THEN "openai" ELSE "google"
ProviderOfCredential(credential) ==
    IF credential = "OPENAI_API_KEY" THEN "openai" ELSE "google"

\* C32: in every reasoning call, primary or fallback, the credential sent
\* belongs to the provider of the model being called: the OpenAI key
\* accompanies the OpenAI model and the Google key the Gemini model.
C32_CredentialMatchesModel ==
    lastRequest.site \in Sites =>
        ProviderOfCredential(lastRequest.credential) = ProviderOfModel(lastRequest.model)

\* C33: if the finalize hook workflow.end() itself fails, the caller still
\* receives the envelope computed by the run (success or error) rather than
\* the hook's exception.
C33_EndFailureKeepsEnvelope ==
    (entry = "main" /\ pc = "done" /\ endCalls > 0) =>
        result.kind = "envelope" /\ result = pending

\* the statuses of a StepResult sequence, in order
Statuses(meta) == [i \in 1..Len(meta) |-> meta[i].status]

C35_TerminatesWithinCallBudget ==
    /\ <>(pc = "done")
    /\ [](/\ calls.retrieve <= 1
          /\ siteCalls <= (Retries + 1) + 1
          /\ Len(siteLog) <= (Retries + 1) + 1
          /\ calls.step <= IF lastRequest.site \in {"analyze", "summarize"}
                           THEN 2 * (Retries + 2) ELSE Retries + 2
          /\ calls.total <= 6 * (Retries + 2)
          /\ (pc = "call" /\ lastRequest.site # site) =>
                 attempt = 0 /\ phase = "primary" /\ site \notin issued
          /\ (pc = "call" /\ lastRequest.site = site /\ phase = "primary") =>
                 attempt = siteCalls /\ attempt <= Retries
          /\ (pc = "call" /\ phase = "fallback") =>
                 lastRequest.site = site /\ siteCalls = Retries + 1)

\* a run that used its whole budget and ended: 30 reasoning calls
C35_Witness ==
    pc = "done" /\ calls.retrieve = 1 /\ calls.total = 6 * (Retries + 2)

\* handleSubmit of the client: the condition under which it reports an error
\* (!apiResponse.ok || data.success === false || data.error)
ClientSeesError(r) ==
    \/ r.httpStatus \notin 200..299
    \/ r.kind = "response" /\ (~r.envelope.success \/ r.envelope.error # NoError)

\* C36: the envelope returned by the HTTP handler has success=true only if
\* the workflow result it relays is a success: when the upstream agent
\* answers with a 2xx response whose body is a failure envelope, the
\* handler's response also has success=false and the client treats it as an
\* error.
C36_RelayedFailureIsFailure ==
    (pc = "done" /\ entry # "main" /\ result.kind = "response"
        /\ result.envelope.data.inner = "failure") =>
        ~result.envelope.success /\ ClientSeesError(result)

\* C37: for every retries value (zero, positive or negative) withRetries
\* invokes the operation at least once and its outcome is always an outcome
\* of the operation: it returns a value the operation returned or throws an
\* error the operation threw; the trailing `throw lastErr`, which would throw
\* an undefined value, is never reached.
C37_OutcomeIsOperationOutcome ==
    rw.status \notin {"none", "running"} =>
        /\ Len(rw.outcomes) >= 1
        /\ rw.status # "threwLastErr"
        /\ LET last == rw.outcomes[Len(rw.outcomes)]
           IN  IF rw.status = "returned"
               THEN last.ok /\ rw.value = last.value
               ELSE ~last.ok /\ rw.thrown = last.error

====
